---- MODULE Spec2Model ----
(***************************************************************************)
(* rnglib: the five generators (mersennetwister.rs, xorshift.rs), the      *)
(* range normalisation (values.rs) and the Random facade (rand.rs).        *)
(*                                                                         *)
(* An unsigned integer of the program (u32, u64, u128, usize) is the set   *)
(* of the positions of its one bits: 10 is {1, 3}.  The registers hold     *)
(* every value of their width, which TLC's own integers cannot.            *)
(***************************************************************************)
EXTENDS Integers, FiniteSets, Sequences, TLC

VARIABLES
    alg,              \* the algorithm T of Random<T>
    overflow_checks,  \* the build: TRUE aborts on integer overflow (dev/test profile), FALSE wraps (release)
    gen,              \* Random.algorithm: [state |-> sequence of words, index |-> cursor]
    pc,               \* "init", "idle", "shuffle", "sample", "returned", "failed" (the constructor returned Err), "panicked"
    call,             \* the facade call in progress or just ended, with its arguments
    ret,              \* what the last call returned
    vector,           \* shuffle: the caller's vector
    items,            \* the local `items` of shuffle (a usize) and of sample
    positions,        \* the local `positions` of sample
    pos,              \* the local `pos` of shuffle and of sample: the position last drawn
    draws,            \* algorithm.randrange calls made by the call in progress
    twists,           \* the facade calls (counted from 1) during which MersenneTwister::twist ran
    calls             \* facade calls made on this generator

vars == <<alg, overflow_checks, gen, pc, call, ret, vector, items, positions, pos,
          draws, twists, calls>>

(***************************************************************************)
(* Bounds of the exploration.                                              *)
(***************************************************************************)
\* facade calls explored per generator
MaxCalls == 2
\* the longest vector handed to shuffle and sample
MaxLen == 3
\* `draws` stops counting here
DrawCap == 5
\* randrange calls of the long MersenneTwister run
MaxDraws == 1252

(***************************************************************************)
(* Unsigned integers as sets of bit positions.                             *)
(***************************************************************************)
Mask(w) == 0 .. (w - 1)

Trunc(a, w) == a \cap Mask(w)

\* the bits of a small literal
FromNat(n) == {i \in 0 .. 30 : (n \div 2 ^ i) % 2 = 1}

Pow2(i) == 2 ^ i

\* the highest position set in a # {}
Top(a) == CHOOSE i \in a : \A j \in a : j <= i

RECURSIVE ToNatRange(_, _, _)
\* the number the positions lo..hi of a stand for
ToNatRange(a, lo, hi) ==
    IF lo = hi THEN (IF lo \in a THEN Pow2(lo) ELSE 0)
    ELSE LET mid == (lo + hi) \div 2
         IN  ToNatRange(a, lo, mid) + ToNatRange(a, mid + 1, hi)

\* the number a set of low bit positions stands for
ToNat(a) == IF a = {} THEN 0 ELSE ToNatRange(a, 0, Top(a))

Xor(a, b) == (a \ b) \cup (b \ a)

\* x << k in a w-bit register: the bits shifted out are lost
Shl(a, k, w) == {i + k : i \in {j \in a : j + k < w}}

\* x >> k
Shr(a, k) == {i - k : i \in {j \in a : j >= k}}

Min(i, j) == IF i <= j THEN i ELSE j

\* A loop over lo..hi is run as four parts, one after the other, as the elements of a
\* tuple: TLC evaluates a value only where it is used and a tuple element by element,
\* so the evaluation nests as deep as the cutting goes, not as the loop is long.
\* The length of a part:
PartLen(lo, hi) == (hi - lo + 4) \div 4

\* part j of lo..hi, for j in 0..3; the last ones are empty when the range is short
PartStart(lo, hi, j) == lo + j * PartLen(lo, hi)

PartEnd(lo, hi, j) == Min(lo + (j + 1) * PartLen(lo, hi) - 1, hi)

\* a < b: the highest position where they differ is set in b
Less(a, b) == \E i \in b \ a : \A j \in a \ b : j < i

\* the least r with 2^r >= w
Log2Ceil(w) == CHOOSE r \in 0 .. 30 : 2 ^ r >= w /\ (r = 0 \/ 2 ^ (r - 1) < w)

\* one round of carry look-ahead: the spans looked at grow from d positions to 2d
CarryRound(gp, d) ==
    <<gp[1] \cup (gp[2] \cap {i + d : i \in gp[1]}), gp[2] \cap {i + d : i \in gp[2]}>>

RECURSIVE CarryRange(_, _, _)
\* the rounds lo..hi of carry look-ahead, in order; round k starts from spans of 2^k
CarryRange(acc, lo, hi) ==
    IF lo > hi THEN acc
    ELSE IF lo = hi THEN CarryRound(acc, 2 ^ lo)
    ELSE LET r0 == CarryRange(acc, PartStart(lo, hi, 0), PartEnd(lo, hi, 0))
             r1 == CarryRange(r0, PartStart(lo, hi, 1), PartEnd(lo, hi, 1))
             r2 == CarryRange(r1, PartStart(lo, hi, 2), PartEnd(lo, hi, 2))
             r3 == CarryRange(r2, PartStart(lo, hi, 3), PartEnd(lo, hi, 3))
         IN  <<r0, r1, r2, r3>>[4]

\* the positions of a w-bit sum that carry out, given those that make a carry (g) and
\* those that pass one on (p): the spans double until they cover the width
Carries(g, p, w) ==
    IF g = {} THEN {} ELSE CarryRange(<<g, p>>, 0, Log2Ceil(w) - 1)[1]

\* a + b in full: bit w of the sum of two w-bit values is the carry out
Add(a, b, w) == Xor(Xor(a, b), {i + 1 : i \in Carries(a \cap b, Xor(a, b), w)})

\* a - b modulo 2^w, as a + ~b + 1; the subtraction borrows exactly when Less(a, b)
Sub(a, b, w) == Trunc(Add(Add(a, Mask(w) \ b, w), {0}, w + 1), w)

\* long division, one bit of the dividend: r < m becomes (2r + bit) mod m
ModBit(a, m, i, r, v) ==
    LET r2 == {j + 1 : j \in r} \cup (IF i \in a THEN {0} ELSE {})
    IN  IF Less(r2, m) THEN r2 ELSE Sub(r2, m, v)

RECURSIVE ModRange(_, _, _, _, _, _, _)
\* the remainder after the steps lo..hi of the long division, from remainder acc;
\* step k takes bit top - k of the dividend
ModRange(a, m, top, v, acc, lo, hi) ==
    IF lo > hi THEN acc
    ELSE IF lo = hi THEN ModBit(a, m, top - lo, acc, v)
    ELSE LET r0 == ModRange(a, m, top, v, acc, PartStart(lo, hi, 0), PartEnd(lo, hi, 0))
             r1 == ModRange(a, m, top, v, r0, PartStart(lo, hi, 1), PartEnd(lo, hi, 1))
             r2 == ModRange(a, m, top, v, r1, PartStart(lo, hi, 2), PartEnd(lo, hi, 2))
             r3 == ModRange(a, m, top, v, r2, PartStart(lo, hi, 3), PartEnd(lo, hi, 3))
         IN  <<r0, r1, r2, r3>>[4]

\* a % m for m # 0 and a below 2^w; the running remainder stays below 2m
Mod(a, m, w) ==
    IF a = {} THEN {} ELSE ModRange(a, m, Top(a), Top(m) + 2, {}, 0, Top(a))

RECURSIVE MulRange(_, _, _, _, _, _)
\* acc + b * (bits lo..hi of a), modulo 2^w
MulRange(a, b, w, acc, lo, hi) ==
    IF lo > hi THEN acc
    ELSE IF lo = hi THEN (IF lo \in a THEN Trunc(Add(acc, Shl(b, lo, w), w), w) ELSE acc)
    ELSE LET r0 == MulRange(a, b, w, acc, PartStart(lo, hi, 0), PartEnd(lo, hi, 0))
             r1 == MulRange(a, b, w, r0, PartStart(lo, hi, 1), PartEnd(lo, hi, 1))
             r2 == MulRange(a, b, w, r1, PartStart(lo, hi, 2), PartEnd(lo, hi, 2))
             r3 == MulRange(a, b, w, r2, PartStart(lo, hi, 3), PartEnd(lo, hi, 3))
         IN  <<r0, r1, r2, r3>>[4]

\* a.wrapping_mul(b) in a w-bit register
WrappingMul(a, b, w) == MulRange(a, b, w, {}, 0, w - 1)

(***************************************************************************)
(* values.rs: the numeric domains and the six range shapes.                *)
(***************************************************************************)
Algorithms ==
    {"MersenneTwister", "XORShift32", "XORShift64", "XORShift128", "XORShift128Plus"}

\* the width of T::Number
NumberBits(a) ==
    CASE a \in {"MersenneTwister", "XORShift32"} -> 32
      [] a = "XORShift64" -> 64
      [] a \in {"XORShift128", "XORShift128Plus"} -> 128

\* the width of usize (a 64-bit host)
UsizeBits == 64

zero == {}

one == {0}

\* T::Number::max()
max(w) == Mask(w)

\* value as T::Number: the high bits of a usize are cut off
from_usize(value, w) == Trunc(value, w)

\* self as usize
to_usize(value) == Trunc(value, UsizeBits)

Range(start, end) == [shape |-> "Range", start |-> start, end |-> end]

RangeInclusive(start, end) == [shape |-> "RangeInclusive", start |-> start, end |-> end]

RangeFrom(start) == [shape |-> "RangeFrom", start |-> start, end |-> {}]

RangeTo(end) == [shape |-> "RangeTo", start |-> {}, end |-> end]

RangeToInclusive(end) == [shape |-> "RangeToInclusive", start |-> {}, end |-> end]

RangeFull == [shape |-> "RangeFull", start |-> {}, end |-> {}]

RangeStart(range) ==
    IF range.shape \in {"Range", "RangeInclusive", "RangeFrom"} THEN range.start
    ELSE zero

\* _end() before it is cut to the width: bit w set is the overflow of `end + one`
RangeEnd(range, w) ==
    CASE range.shape = "Range" -> range.end
      [] range.shape = "RangeInclusive" -> Add(range.end, one, w)
      [] range.shape = "RangeFrom" -> max(w)
      [] range.shape = "RangeTo" -> range.end
      [] range.shape = "RangeToInclusive" -> range.end
      [] range.shape = "RangeFull" -> max(w)

\* a faulty variant of Reduce: the raw draw is not reduced modulo the width
ReduceNoModulo(x, range, w, checks) ==
    LET e == RangeEnd(range, w)
        s == RangeStart(range)
        end == Trunc(e, w)
        width == Sub(end, s, w)
        sum == Add(x, s, w)
    IN  IF (w \in e \/ Less(end, s)) /\ checks THEN [panic |-> TRUE, value |-> {}]
        ELSE IF width = {} THEN [panic |-> TRUE, value |-> {}]
        ELSE IF w \in sum /\ checks THEN [panic |-> TRUE, value |-> {}]
        ELSE [panic |-> FALSE, value |-> Trunc(sum, w)]

\* `x % (range._end() - range._start()) + range._start()`, the last line of every
\* randrange.  An overflowing +, - aborts under overflow checks and wraps without
\* them; % by zero aborts in every build.
Reduce(x, range, w, checks) ==
    LET e == RangeEnd(range, w)
        s == RangeStart(range)
        end == Trunc(e, w)
        width == Sub(end, s, w)
        sum == Add(Mod(x, width, w), s, w)
    IN  IF (w \in e \/ Less(end, s)) /\ checks THEN [panic |-> TRUE, value |-> {}]
        ELSE IF width = {} THEN [panic |-> TRUE, value |-> {}]
        ELSE IF w \in sum /\ checks THEN [panic |-> TRUE, value |-> {}]
        ELSE [panic |-> FALSE, value |-> Trunc(sum, w)]

(***************************************************************************)
(* xorshift.rs                                                             *)
(***************************************************************************)
\* the three shift-xor steps of XORShift32::randrange
XORShift32Step(s) ==
    LET x1 == Xor(s, Shl(s, 13, 32))
        x2 == Xor(x1, Shr(x1, 17))
    IN  Xor(x2, Shl(x2, 5, 32))

\* a faulty variant of XORShift64Step: the shift triple of XORShift32
XORShift64StepOtherTriple(s) ==
    LET x1 == Xor(s, Shl(s, 13, 64))
        x2 == Xor(x1, Shr(x1, 17))
    IN  Xor(x2, Shl(x2, 5, 64))

XORShift64Step(s) ==
    LET x1 == Xor(s, Shl(s, 13, 64))
        x2 == Xor(x1, Shr(x1, 7))
    IN  Xor(x2, Shl(x2, 17, 64))

XORShift128Step(s) ==
    LET x1 == Xor(s, Shl(s, 11, 128))
        x2 == Xor(x1, Shr(x1, 8))
    IN  Xor(x2, Shl(x2, 19, 128))

\* the new x of XORShift128Plus::randrange, from state[0] and state[1]
XORShift128PlusStep(x0, y) ==
    LET x1 == Xor(x0, Shl(x0, 23, 64))
        x2 == Xor(x1, Shr(x1, 18))
    IN  Xor(x2, Xor(y, Shr(y, 5)))

\* XORShift32/64/128::randrange up to its return: the register is replaced, and the
\* new register is the raw draw
XORShiftAdvance(a, g) ==
    LET x == CASE a = "XORShift32" -> XORShift32Step(g.state)
               [] a = "XORShift64" -> XORShift64Step(g.state)
               [] a = "XORShift128" -> XORShift128Step(g.state)
    IN  [gen |-> [state |-> x], raw |-> x, panic |-> FALSE, twist |-> FALSE]

\* XORShift128Plus::randrange up to the modulo: `x + y` is a u64 addition, widened
\* afterwards
XORShift128PlusAdvance(g, checks) ==
    LET y == g.state[1]
        x == XORShift128PlusStep(g.state[0], y)
        sum == Add(x, y, 64)
    IN  [gen |-> [state |-> [g.state EXCEPT ![1] = x]], raw |-> Trunc(sum, 64),
         panic |-> 64 \in sum /\ checks, twist |-> FALSE]

\* new of the three one-register generators: Err on a zero seed
XORShiftNew(seed) ==
    IF seed = {} THEN [ok |-> FALSE, panic |-> FALSE, gen |-> [state |-> {}]]
    ELSE [ok |-> TRUE, panic |-> FALSE, gen |-> [state |-> seed]]

\* a faulty variant of XORShift128Plus::new: `&` for `|`
XORShift128PlusNewAnd(seed) ==
    IF seed[0] \cap seed[1] = {}
    THEN [ok |-> FALSE, panic |-> FALSE, gen |-> [state |-> seed]]
    ELSE [ok |-> TRUE, panic |-> FALSE, gen |-> [state |-> seed]]

\* XORShift128Plus::new: Err when seed[0] | seed[1] is zero
XORShift128PlusNew(seed) ==
    IF seed[0] \cup seed[1] = {}
    THEN [ok |-> FALSE, panic |-> FALSE, gen |-> [state |-> seed]]
    ELSE [ok |-> TRUE, panic |-> FALSE, gen |-> [state |-> seed]]

(***************************************************************************)
(* mersennetwister.rs                                                      *)
(***************************************************************************)
\* n, the length of the state array
N == 624

\* m
M == 397

\* a = 0x9908B0DF
CoefA == {0, 1, 2, 3, 4, 6, 7, 12, 13, 15, 19, 24, 27, 28, 31}

\* b = 0x9D2C5680
CoefB == {7, 9, 10, 12, 14, 18, 19, 21, 24, 26, 27, 28, 31}

\* c = 0xEFC60000
CoefC == {17, 18, 22, 23, 24, 25, 26, 27, 29, 30, 31}

\* f = 1812433253
CoefF == FromNat(1812433253)

lower_mask == Mask(31)

upper_mask == {31}

\* one iteration of the loop of twist
TwistStep(state, i) ==
    LET x == Trunc(Add(state[i] \cap upper_mask, state[(i + 1) % N] \cap lower_mask, 32), 32)
        y == IF 0 \in x THEN Xor(Shr(x, 1), CoefA) ELSE Shr(x, 1)
    IN  [state EXCEPT ![i] = Xor(state[(i + M) % N], y)]

RECURSIVE TwistRange(_, _, _)
\* the iterations lo..hi of twist, in order
TwistRange(acc, lo, hi) ==
    IF lo > hi THEN acc
    ELSE IF lo = hi THEN TwistStep(acc, lo)
    ELSE LET r0 == TwistRange(acc, PartStart(lo, hi, 0), PartEnd(lo, hi, 0))
             r1 == TwistRange(r0, PartStart(lo, hi, 1), PartEnd(lo, hi, 1))
             r2 == TwistRange(r1, PartStart(lo, hi, 2), PartEnd(lo, hi, 2))
             r3 == TwistRange(r2, PartStart(lo, hi, 3), PartEnd(lo, hi, 3))
         IN  <<r0, r1, r2, r3>>[4]

twist(state) == TwistRange(state, 0, N - 1)

\* one iteration of the seeding loop of new; `+ i` is a checked u32 addition
SeedStep(acc, i) ==
    LET prev == acc.state[i - 1]
        tmp == Add(WrappingMul(CoefF, Xor(prev, Shr(prev, 30)), 32), FromNat(i), 32)
    IN  [state |-> [acc.state EXCEPT ![i] = Trunc(tmp, 32)],
         overflow |-> acc.overflow \/ 32 \in tmp]

RECURSIVE SeedRange(_, _, _)
\* the iterations lo..hi of the seeding loop of new, in order
SeedRange(acc, lo, hi) ==
    IF lo > hi THEN acc
    ELSE IF lo = hi THEN SeedStep(acc, lo)
    ELSE LET r0 == SeedRange(acc, PartStart(lo, hi, 0), PartEnd(lo, hi, 0))
             r1 == SeedRange(r0, PartStart(lo, hi, 1), PartEnd(lo, hi, 1))
             r2 == SeedRange(r1, PartStart(lo, hi, 2), PartEnd(lo, hi, 2))
             r3 == SeedRange(r2, PartStart(lo, hi, 3), PartEnd(lo, hi, 3))
         IN  <<r0, r1, r2, r3>>[4]

\* MersenneTwister::new: never Err; aborts when `+ i` overflows under overflow checks
MersenneTwisterNew(seed, checks) ==
    LET s == SeedRange([state |-> [i \in 0 .. (N - 1) |-> IF i = 0 THEN seed ELSE {}],
                        overflow |-> FALSE], 1, N - 1)
    IN  [ok |-> TRUE, panic |-> s.overflow /\ checks,
         gen |-> [state |-> s.state, index |-> N + 1]]

\* the tempering of MersenneTwister::randrange
Temper(x0) ==
    LET x1 == Xor(x0, Shr(x0, 11) \cap Mask(32))
        x2 == Xor(x1, Shl(x1, 7, 32) \cap CoefB)
        x3 == Xor(x2, Shl(x2, 15, 32) \cap CoefC)
    IN  Xor(x3, Shr(x3, 1))

\* a faulty variant of MersenneTwister::randrange: the refill comes one draw early
MersenneTwisterAdvanceEarly(g) ==
    LET refill == g.index >= N - 1
        state == IF refill THEN twist(g.state) ELSE g.state
        index == IF refill THEN 0 ELSE g.index
        x == Temper(state[index])
    IN  [gen |-> [state |-> state, index |-> index + 1], raw |-> x \cap Mask(32),
         panic |-> FALSE, twist |-> refill]

\* MersenneTwister::randrange up to its return
MersenneTwisterAdvance(g) ==
    LET refill == g.index >= N
        state == IF refill THEN twist(g.state) ELSE g.state
        index == IF refill THEN 0 ELSE g.index
        x == Temper(state[index])
    IN  [gen |-> [state |-> state, index |-> index + 1], raw |-> x \cap Mask(32),
         panic |-> FALSE, twist |-> refill]

(***************************************************************************)
(* algorithm.rs: the RandomAlgorithm trait, dispatched on T.                *)
(***************************************************************************)
\* T::new(seed)
AlgorithmNew(a, seed, checks) ==
    CASE a = "MersenneTwister" -> MersenneTwisterNew(seed, checks)
      [] a = "XORShift128Plus" -> XORShift128PlusNew(seed)
      [] OTHER -> XORShiftNew(seed)

\* self.algorithm.randrange(range) up to the last line: the state advanced, the raw draw
AlgorithmAdvance(a, g, checks) ==
    CASE a = "MersenneTwister" -> MersenneTwisterAdvance(g)
      [] a = "XORShift128Plus" -> XORShift128PlusAdvance(g, checks)
      [] OTHER -> XORShiftAdvance(a, g)

\* the last line of randrange, on the raw draw of adv
Reduced(adv, range, w, checks) ==
    LET r == Reduce(adv.raw, range, w, checks)
    IN  [gen |-> adv.gen, panic |-> adv.panic \/ r.panic, value |-> r.value,
         twist |-> adv.twist]

\* self.algorithm.randrange(range)
AlgorithmRandrange(a, g, range, checks) ==
    Reduced(AlgorithmAdvance(a, g, checks), range, NumberBits(a), checks)

\* T::default(): the seed is read from the clock, or is 1 when the clock fails
AlgorithmDefault(a, clock, checks) ==
    LET subsec_micros == IF clock.ok THEN FromNat(clock.micros) ELSE one
        as_secs == IF clock.ok THEN FromNat(clock.secs) ELSE one
        as_micros == IF clock.ok THEN FromNat(clock.secs * 1000000 + clock.micros) ELSE one
        next == Add(as_secs, one, 64)
    IN  CASE a = "MersenneTwister" -> MersenneTwisterNew(subsec_micros, checks)
          [] a = "XORShift32" -> [ok |-> TRUE, panic |-> FALSE, gen |-> [state |-> subsec_micros]]
          [] a = "XORShift64" -> [ok |-> TRUE, panic |-> FALSE, gen |-> [state |-> as_secs]]
          [] a = "XORShift128" -> [ok |-> TRUE, panic |-> FALSE, gen |-> [state |-> as_micros]]
          [] a = "XORShift128Plus" ->
                [ok |-> TRUE, panic |-> 64 \in next /\ checks,
                 gen |-> [state |-> [i \in 0 .. 1 |-> IF i = 0 THEN as_secs ELSE Trunc(next, 64)]]]

(***************************************************************************)
(* The inputs explored.                                                    *)
(***************************************************************************)
\* the seed whose first XORShift64 step gives u64::MAX - 1
SeedNearMax64 ==
    {0, 3, 7, 8, 9, 11, 12, 16, 17, 20, 23, 24, 25, 28, 33, 35, 38, 41, 45, 47, 49, 50,
     54, 58, 60, 62, 63}

\* the seed whose first XORShift128 step gives u128::MAX - 1
SeedNearMax128 ==
    {1, 3, 5, 6, 10, 14, 15, 19, 22, 25, 29, 33, 34, 36, 37, 38, 40, 42, 44, 46, 52, 53,
     55, 57, 58, 61, 62, 65, 68, 70, 71, 74, 76, 77, 78, 80, 85, 87, 88, 89, 92, 93, 94,
     95, 97, 99, 100, 103, 108, 110, 111, 112, 113, 119, 120, 125, 126, 127}

\* the seed whose first XORShift32 step gives u32::MAX
SeedToMax32 == {0, 1, 2, 5, 6, 7, 10, 11, 12, 13, 14, 15, 18, 19, 21, 22, 25, 26, 27, 28, 30}

Pair(x, y) == [i \in 0 .. 1 |-> IF i = 0 THEN x ELSE y]

Seeds(a) ==
    CASE a = "MersenneTwister" -> {FromNat(10)}
      [] a = "XORShift32" -> {{}, FromNat(10), SeedToMax32}
      [] a = "XORShift64" -> {{}, FromNat(10), SeedNearMax64}
      [] a = "XORShift128" -> {{}, FromNat(10), SeedNearMax128}
      [] a = "XORShift128Plus" ->
            {Pair({}, {}), Pair({}, one), Pair(FromNat(10), FromNat(20)), Pair({}, {63})}

\* readings of SystemTime::now().duration_since(UNIX_EPOCH)
Clocks(a) ==
    IF a = "MersenneTwister" THEN {[ok |-> FALSE, secs |-> 0, micros |-> 0]}
    ELSE {[ok |-> FALSE, secs |-> 0, micros |-> 0], [ok |-> TRUE, secs |-> 0, micros |-> 0],
          [ok |-> TRUE, secs |-> 3, micros |-> 7]}

Ranges(w) ==
    {Range(one, FromNat(5)), RangeInclusive(one, FromNat(5)), RangeFrom(one),
     RangeTo(FromNat(5)), RangeToInclusive(FromNat(5)), RangeFull,
     RangeInclusive(zero, max(w)), Range(FromNat(5), one), Range(FromNat(2), FromNat(2))}

Iota(n) == [i \in 1 .. n |-> i]

Vectors == {Iota(n) : n \in 0 .. MaxLen} \cup {[i \in 1 .. MaxLen |-> 1 + (i % 2)]}

(***************************************************************************)
(* rand.rs: the Random facade.                                             *)
(***************************************************************************)
\* a generator not built yet
NoGen(a) ==
    CASE a = "MersenneTwister" -> [state |-> [i \in 0 .. N - 1 |-> {}], index |-> 0]
      [] a = "XORShift128Plus" -> [state |-> Pair({}, {})]
      [] OTHER -> [state |-> {}]

NoClock == [ok |-> FALSE, secs |-> 0, micros |-> 0]

\* the call in progress or just ended: its name, and the arguments it has
NoCall ==
    [op |-> "none", seed |-> NoGen(alg).state, clock |-> NoClock, range |-> RangeFull,
     vector |-> <<>>, amount |-> 0]

\* what the call gave back: Ok or Err, the number of a ranged draw, the quotient of
\* random() against 1.0, the positions sample selected, the place of an abort
NoRet == [ok |-> TRUE, value |-> {}, quotient |-> "", selected |-> <<>>, abort |-> ""]

\* the locals of no call in progress
Idle == vector' = <<>> /\ items' = {} /\ positions' = {} /\ pos' = {}

Count(n) == IF n < DrawCap THEN n + 1 ELSE n

Init ==
    /\ alg \in Algorithms
    /\ overflow_checks \in BOOLEAN
    /\ gen = NoGen(alg)
    /\ pc = "init"
    /\ call = NoCall
    /\ ret = NoRet
    /\ vector = <<>>
    /\ items = {}
    /\ positions = {}
    /\ pos = {}
    /\ draws = 0
    /\ twists = {}
    /\ calls = 0

\* what a constructor leaves: a generator, Err, or an abort
Constructed(c, r) ==
    /\ pc' = (IF r.panic THEN "panicked" ELSE IF r.ok THEN "idle" ELSE "failed")
    /\ gen' = (IF r.panic \/ ~r.ok THEN gen ELSE r.gen)
    /\ call' = c
    /\ ret' = [NoRet EXCEPT !.ok = r.ok /\ ~r.panic]
    /\ UNCHANGED <<alg, overflow_checks, vector, items, positions, pos, draws, twists, calls>>

\* Random::seed(seed)
Seed ==
    /\ pc = "init"
    /\ \E seed \in Seeds(alg) :
          Constructed([NoCall EXCEPT !.op = "seed", !.seed = seed],
                      AlgorithmNew(alg, seed, overflow_checks))

\* Random::new()
New ==
    /\ pc = "init"
    /\ \E clock \in Clocks(alg) :
          Constructed([NoCall EXCEPT !.op = "new", !.clock = clock],
                      AlgorithmDefault(alg, clock, overflow_checks))

\* Random::randrange(range), on the generator advanced to adv
RandrangeCall(adv, range) ==
    LET d == Reduced(adv, range, NumberBits(alg), overflow_checks)
    IN  /\ pc' = (IF d.panic THEN "panicked" ELSE "returned")
        /\ gen' = d.gen
        /\ call' = [NoCall EXCEPT !.op = "randrange", !.range = range]
        /\ ret' = [NoRet EXCEPT !.ok = ~d.panic, !.value = d.value]
        /\ draws' = 1
        /\ calls' = calls + 1
        /\ twists' = (IF d.twist THEN twists \cup {calls + 1} ELSE twists)
        /\ Idle
        /\ UNCHANGED <<alg, overflow_checks>>

Randrange ==
    /\ pc = "idle"
    /\ calls < MaxCalls
    /\ LET adv == AlgorithmAdvance(alg, gen, overflow_checks)
       IN  \E range \in Ranges(NumberBits(alg)) : RandrangeCall(adv, range)

\* value.to_f64(): the nearest f64, ties to the even mantissa, as the integer it is
to_f64(a) ==
    IF a = {} \/ Top(a \cup {0}) <= 52 THEN a
    ELSE LET h == Top(a)
             drop == h - 52
             kept == {i \in a : i >= drop}
             up == (drop - 1) \in a /\ (drop \in a \/ \E i \in a : i < drop - 1)
         IN  IF up THEN Add(kept, {drop}, h + 1) ELSE kept

\* value.to_f64() / T::Number::max().to_f64() against 1.0.  The quotient n / d is
\* rounded to the nearest f64, ties to the even mantissa: it is below 1.0 when
\* n / d < 1 - 2^-54, above 1.0 when n / d > 1 + 2^-53, and 1.0 in between.
F64Div(n, d) ==
    IF Less(Shl(n, 54, 256), Sub(Shl(d, 54, 256), d, 256)) THEN "below 1.0"
    ELSE IF Less(Add(Shl(d, 53, 256), d, 256), Shl(n, 53, 256)) THEN "above 1.0"
    ELSE "1.0"

\* Random::random()
Random ==
    LET w == NumberBits(alg)
        d == AlgorithmRandrange(alg, gen, Range(zero, max(w)), overflow_checks)
    IN  /\ pc = "idle"
        /\ calls < MaxCalls
        /\ pc' = (IF d.panic THEN "panicked" ELSE "returned")
        /\ gen' = d.gen
        /\ call' = [NoCall EXCEPT !.op = "random", !.range = Range(zero, max(w))]
        /\ ret' = [NoRet EXCEPT !.ok = ~d.panic, !.value = d.value,
                                !.quotient = F64Div(to_f64(d.value), to_f64(max(w)))]
        /\ draws' = 1
        /\ calls' = calls + 1
        /\ twists' = (IF d.twist THEN twists \cup {calls + 1} ELSE twists)
        /\ Idle
        /\ UNCHANGED <<alg, overflow_checks>>

\* a faulty variant of swap: one element is copied over the other
SwapOverwrite(v, a, b) == [v EXCEPT ![a + 1] = v[b + 1]]

\* vector.swap(a, b), both below vector.len()
Swap(v, a, b) == [v EXCEPT ![a + 1] = v[b + 1], ![b + 1] = v[a + 1]]

\* Random::shuffle(vector), up to the loop: `vector.len() - 1` is a usize subtraction
ShuffleBegin ==
    /\ pc = "idle"
    /\ calls < MaxCalls
    /\ \E v \in Vectors :
          /\ pc' = (IF Len(v) = 0 /\ overflow_checks THEN "panicked" ELSE "shuffle")
          /\ ret' = (IF Len(v) = 0 /\ overflow_checks
                     THEN [NoRet EXCEPT !.ok = FALSE, !.abort = "len"]
                     ELSE NoRet)
          /\ items' = Sub(FromNat(Len(v)), one, UsizeBits)
          /\ vector' = v
          /\ call' = [NoCall EXCEPT !.op = "shuffle", !.vector = v]
    /\ positions' = {}
    /\ pos' = {}
    /\ draws' = 0
    /\ calls' = calls + 1
    /\ UNCHANGED <<alg, overflow_checks, gen, twists>>

\* one iteration of `while items > 0`
ShuffleIter ==
    LET w == NumberBits(alg)
        d == AlgorithmRandrange(alg, gen, RangeInclusive(zero, from_usize(items, w)),
                                overflow_checks)
        p == to_usize(d.value)
        len == FromNat(Len(vector))
        inside == Less(p, len) /\ Less(items, len)
    IN  /\ pc = "shuffle"
        /\ items # {}
        /\ gen' = d.gen
        /\ draws' = Count(draws)
        /\ twists' = (IF d.twist THEN twists \cup {calls} ELSE twists)
        /\ IF d.panic
           THEN /\ pc' = "panicked"
                /\ ret' = [NoRet EXCEPT !.ok = FALSE, !.abort = "randrange"]
                /\ UNCHANGED <<vector, items, pos>>
           ELSE IF p # items /\ ~inside
           THEN /\ pc' = "panicked"
                /\ ret' = [NoRet EXCEPT !.ok = FALSE, !.abort = "swap"]
                /\ pos' = p
                /\ UNCHANGED <<vector, items>>
           ELSE /\ pc' = "shuffle"
                /\ pos' = p
                /\ vector' = (IF p # items THEN Swap(vector, ToNat(p), ToNat(items))
                              ELSE vector)
                /\ items' = Sub(items, one, UsizeBits)
                /\ ret' = ret
        /\ UNCHANGED <<alg, overflow_checks, call, positions, calls>>

\* the loop of shuffle ends and the call returns
ShuffleReturn ==
    /\ pc = "shuffle"
    /\ items = {}
    /\ pc' = "returned"
    /\ ret' = NoRet
    /\ UNCHANGED <<alg, overflow_checks, gen, call, vector, items, positions, pos, draws,
                   twists, calls>>

\* a faulty variant of sample: `amount >= length` for `amount > length`
SampleBeginOffByOne ==
    /\ pc = "idle"
    /\ calls < MaxCalls
    /\ \E v \in Vectors : \E amount \in 0 .. (Len(v) + 1) :
          /\ pc' = (IF amount >= Len(v) THEN "returned" ELSE "sample")
          /\ ret' = [NoRet EXCEPT !.ok = ~(amount >= Len(v))]
          /\ vector' = v
          /\ call' = [NoCall EXCEPT !.op = "sample", !.vector = v, !.amount = amount]
    /\ items' = {}
    /\ positions' = {}
    /\ pos' = {}
    /\ draws' = 0
    /\ calls' = calls + 1
    /\ UNCHANGED <<alg, overflow_checks, gen, twists>>

\* Random::sample(vector, amount), up to the loop
SampleBegin ==
    /\ pc = "idle"
    /\ calls < MaxCalls
    /\ \E v \in Vectors : \E amount \in 0 .. (Len(v) + 1) :
          /\ pc' = (IF amount > Len(v) THEN "returned" ELSE "sample")
          /\ ret' = [NoRet EXCEPT !.ok = ~(amount > Len(v))]
          /\ vector' = v
          /\ call' = [NoCall EXCEPT !.op = "sample", !.vector = v, !.amount = amount]
    /\ items' = {}
    /\ positions' = {}
    /\ pos' = {}
    /\ draws' = 0
    /\ calls' = calls + 1
    /\ UNCHANGED <<alg, overflow_checks, gen, twists>>

\* one iteration of `while items < amount`
SampleIter ==
    LET w == NumberBits(alg)
        length == FromNat(Len(vector))
        d == AlgorithmRandrange(alg, gen, Range(zero, from_usize(length, w)),
                                overflow_checks)
        p == to_usize(d.value)
    IN  /\ pc = "sample"
        /\ Less(items, FromNat(call.amount))
        /\ gen' = d.gen
        /\ draws' = Count(draws)
        /\ twists' = (IF d.twist THEN twists \cup {calls} ELSE twists)
        /\ IF d.panic
           THEN pc' = "panicked" /\ UNCHANGED <<items, positions, pos>>
           ELSE /\ pc' = "sample"
                /\ pos' = p
                /\ positions' = positions \cup {p}
                /\ items' = (IF p \in positions THEN items
                             ELSE Trunc(Add(items, one, UsizeBits), UsizeBits))
        /\ UNCHANGED <<alg, overflow_checks, call, ret, vector, calls>>

\* the orders in which a HashSet may be iterated
Orders(set) ==
    {o \in [1 .. Cardinality(set) -> set] : \A i, j \in DOMAIN o : i # j => o[i] # o[j]}

\* the loop of sample ends: `selected` is filled in the set's iteration order
SampleReturn ==
    /\ pc = "sample"
    /\ ~Less(items, FromNat(call.amount))
    /\ pc' = "returned"
    /\ \E order \in Orders(positions) : ret' = [NoRet EXCEPT !.selected = order]
    /\ UNCHANGED <<alg, overflow_checks, gen, call, vector, items, positions, pos, draws,
                   twists, calls>>

\* the caller takes what the call returned; the locals of the call are gone
Resume ==
    /\ pc = "returned"
    /\ pc' = "idle"
    /\ call' = NoCall
    /\ ret' = NoRet
    /\ draws' = 0
    /\ Idle
    /\ UNCHANGED <<alg, overflow_checks, gen, twists, calls>>

Next ==
    \/ Seed
    \/ New
    \/ Randrange
    \/ Random
    \/ ShuffleBegin
    \/ ShuffleIter
    \/ ShuffleReturn
    \/ SampleBegin
    \/ SampleIter
    \/ SampleReturn
    \/ Resume

Spec == Init /\ [][Next]_vars

(***************************************************************************)
(* A long run of one MersenneTwister: randrange after randrange.           *)
(***************************************************************************)
InitMT ==
    /\ alg = "MersenneTwister"
    /\ overflow_checks \in BOOLEAN
    /\ gen = MersenneTwisterNew(FromNat(10), overflow_checks).gen
    /\ pc = "idle"
    /\ call = [NoCall EXCEPT !.op = "seed", !.seed = FromNat(10)]
    /\ ret = NoRet
    /\ vector = <<>>
    /\ items = {}
    /\ positions = {}
    /\ pos = {}
    /\ draws = 0
    /\ twists = {}
    /\ calls = 0

LongRun ==
    /\ pc = "idle"
    /\ calls < MaxDraws
    /\ LET adv == AlgorithmAdvance(alg, gen, overflow_checks)
       IN  \E range \in {Range(one, FromNat(5)), RangeFull} : RandrangeCall(adv, range)

NextMT ==
    \/ LongRun
    \/ Resume

SpecMT == InitMT /\ [][NextMT]_vars

(***************************************************************************)
(* MersenneTwister::new on several seeds, and the first draws after it.    *)
(***************************************************************************)
\* randrange calls explored after each seeding
MaxSeededDraws == 8

\* 7974 is a seed for which `+ i` passes 2^32 (at i = 609)
MTSeeds == {{}, FromNat(10), FromNat(7974), max(32)}

InitSeeding == Init /\ alg = "MersenneTwister"

\* Random::<MersenneTwister>::seed(seed)
SeedMT ==
    /\ pc = "init"
    /\ \E seed \in MTSeeds :
          Constructed([NoCall EXCEPT !.op = "seed", !.seed = seed],
                      MersenneTwisterNew(seed, overflow_checks))

FirstDraws ==
    /\ pc = "idle"
    /\ calls < MaxSeededDraws
    /\ LET adv == AlgorithmAdvance(alg, gen, overflow_checks)
       IN  \E range \in {Range(one, FromNat(5)), RangeFull} : RandrangeCall(adv, range)

NextSeeding ==
    \/ SeedMT
    \/ FirstDraws
    \/ Resume

SpecSeeding == InitSeeding /\ [][NextSeeding]_vars

(***************************************************************************)
(* Properties of the ranged draw and of the range shapes.                  *)
(***************************************************************************)
\* the normalized pair of range has end > start, and end was computed without overflow
ValidRange(range, w) ==
    LET e == RangeEnd(range, w)
    IN  w \notin e /\ Less(RangeStart(range), e)

\* start <= v < end for the normalized pair of range
InRange(v, range, w) ==
    /\ ~Less(v, RangeStart(range))
    /\ Less(v, RangeEnd(range, w))

\* Whenever randrange returns from a call with a valid range, what it returns is in
\* the range.
RandrangeInRangeWhenReturned ==
    (call.op = "randrange" /\ pc = "returned" /\ ValidRange(call.range, NumberBits(alg)))
        => InRange(ret.value, call.range, NumberBits(alg))

\* C1: for each of the five generators, in every reachable generator state and for
\* every range whose normalized pair has end > start, randrange(range) returns a
\* value v with start <= v < end.
C1_RandrangeReturnsInRange ==
    (call.op = "randrange" /\ ValidRange(call.range, NumberBits(alg)))
        => /\ pc = "returned"
           /\ InRange(ret.value, call.range, NumberBits(alg))

\* C2: the inclusive shapes a..=u and ..=u both normalize to _end() = u + 1 (u below
\* the maximum of the width), so that u itself is a possible result.
C2_InclusiveEndIsUpperPlusOne ==
    (/\ call.op = "randrange"
     /\ call.range.shape \in {"RangeInclusive", "RangeToInclusive"}
     /\ call.range.end # max(NumberBits(alg)))
        => RangeEnd(call.range, NumberBits(alg)) = Add(call.range.end, one, NumberBits(alg))

(***************************************************************************)
(* Properties of seeded construction.                                      *)
(***************************************************************************)
ZeroSeed(a, seed) ==
    IF a = "XORShift128Plus" THEN seed[0] = {} /\ seed[1] = {} ELSE seed = {}

\* C3: seeded construction of XORShift32/64/128 is Err exactly when the seed is zero,
\* and of XORShift128Plus exactly when both halves are zero; every other seed gives a
\* generator holding the seed, and Random::seed has the outcome of the algorithm's new.
C3_SeedErrIffZero ==
    (call.op = "seed" /\ alg # "MersenneTwister")
        => /\ ret.ok <=> ~ZeroSeed(alg, call.seed)
           /\ pc = (IF ZeroSeed(alg, call.seed) THEN "failed" ELSE "idle")
           /\ ~ZeroSeed(alg, call.seed) => gen.state = call.seed

\* a XORShift128Plus was built from a seed with one zero half
C3_Witness ==
    /\ alg = "XORShift128Plus"
    /\ call.op = "seed"
    /\ call.seed[0] = {}
    /\ call.seed[1] # {}
    /\ pc = "idle"
    /\ ret.ok

(***************************************************************************)
(* Properties of sample.                                                   *)
(***************************************************************************)
\* C5: sample(vector, amount) is Err exactly when amount > length, and then makes no
\* draw; otherwise what it returns are exactly amount references, each to a position
\* in [0, length), no position twice.
C5_SampleResult ==
    (call.op = "sample" /\ pc = "returned")
        => LET length == Len(call.vector)
               amount == call.amount
           IN  /\ ret.ok <=> amount <= length
               /\ ~ret.ok => draws = 0 /\ positions = {}
               /\ ret.ok => /\ Len(ret.selected) = amount
                            /\ \A i \in DOMAIN ret.selected :
                                  Less(ret.selected[i], FromNat(length))
                            /\ \A i, j \in DOMAIN ret.selected :
                                  i # j => ret.selected[i] # ret.selected[j]

\* a sample of two positions returned after a draw was rejected
C5_Witness ==
    /\ call.op = "sample"
    /\ pc = "returned"
    /\ ret.ok
    /\ call.amount = 2
    /\ draws > 2

\* C7: the rejection loop of sample always terminates.  The loop is sequential and
\* deterministic, so it terminates only if it never comes back to a state it was in:
\* every iteration changes the generator or the set of positions selected.
C7_SampleLoopProgresses ==
    [][(pc = "sample" /\ pc' = "sample") => <<gen, positions>>' # <<gen, positions>>]_vars

(***************************************************************************)
(* Properties of shuffle.                                                  *)
(***************************************************************************)
\* v holds the elements of o, each as often as o does
IsPermutation(v, o) ==
    /\ Len(v) = Len(o)
    /\ \A e \in {o[i] : i \in DOMAIN o} \cup {v[i] : i \in DOMAIN v} :
          Cardinality({i \in DOMAIN v : v[i] = e}) = Cardinality({i \in DOMAIN o : o[i] = e})

ShiftXor(s, a, b, c, w) ==
    LET x1 == Xor(s, Shl(s, a, w))
        x2 == Xor(x1, Shr(x1, b))
    IN  Xor(x2, Shl(x2, c, w))

ShiftTriple(a, s) ==
    CASE a = "XORShift32" -> ShiftXor(s, 13, 17, 5, 32)
      [] a = "XORShift64" -> ShiftXor(s, 13, 7, 17, 64)
      [] a = "XORShift128" -> ShiftXor(s, 11, 8, 19, 128)

C8_Step ==
    (/\ alg \in {"XORShift32", "XORShift64", "XORShift128"}
     /\ pc = "idle"
     /\ call'.op = "randrange")
        => LET w == NumberBits(alg)
               range == call'.range
               width == Sub(RangeEnd(range, w), RangeStart(range), w)
           IN  /\ gen'.state = ShiftTriple(alg, gen.state)
               /\ (pc' = "returned" /\ ValidRange(range, w))
                     => ret'.value = Add(Mod(gen'.state, width, w), RangeStart(range), w)
               /\ (/\ call.op = "seed"
                   /\ call.seed = FromNat(10)
                   /\ range = Range(one, FromNat(5)))
                     => pc' = "returned" /\ ret'.value = FromNat(3)

\* C8: one randrange of XORShift32, XORShift64, XORShift128 replaces the register s by
\* three shift-xor steps, with the shifts (13, 17, 5), (13, 7, 17), (11, 8, 19), each
\* cut to the width, and returns (new register mod (end - start)) + start; seeded
\* with 10, the first draw over 1..5 is 3.
C8_XORShiftStep == [][C8_Step]_vars

\* the first draw of a XORShift64 seeded with 10, over 1..5, returned 3
C8_Witness ==
    /\ alg = "XORShift64"
    /\ call.op = "randrange"
    /\ call.range = Range(one, FromNat(5))
    /\ calls = 1
    /\ gen.state = ShiftXor(FromNat(10), 13, 7, 17, 64)
    /\ ret.value = FromNat(3)

(***************************************************************************)
(* Properties of random().                                                 *)
(***************************************************************************)
\* C9, as the code has it: random() makes one draw over zero()..max(), the drawn
\* integer is below max(), and the quotient is never above 1.0; it is below 1.0 for
\* the 32-bit generators, and can be 1.0 for the wider ones.
C9_RandomAtMostOne ==
    (call.op = "random" /\ pc = "returned")
        => /\ draws = 1
           /\ call.range = Range(zero, max(NumberBits(alg)))
           /\ Less(ret.value, max(NumberBits(alg)))
           /\ ret.quotient # "above 1.0"
           /\ NumberBits(alg) = 32 => ret.quotient = "below 1.0"

\* random() returned exactly 1.0
C9_Witness ==
    /\ call.op = "random"
    /\ pc = "returned"
    /\ Less(ret.value, max(NumberBits(alg)))
    /\ ret.quotient = "1.0"

\* C9: random() makes one draw over zero()..max(), the drawn integer is below max(),
\* and so the quotient is in [0, 1) and never reaches 1, for any generator state of
\* any algorithm.
C9_RandomBelowOne ==
    (call.op = "random" /\ pc = "returned")
        => /\ draws = 1
           /\ Less(ret.value, max(NumberBits(alg)))
           /\ ret.quotient = "below 1.0"

(***************************************************************************)
(* Properties of the MersenneTwister cursor.                               *)
(***************************************************************************)
\* C10: on a MersenneTwister built by new, in any sequence of randrange calls, the
\* twist runs on the draws 1, 625, 1249, ... and on no other, the cursor is in
\* 1..=624 after every draw, and the k-th draw reads the word (k - 1) mod 624.
C10_TwistEvery624 ==
    (alg = "MersenneTwister" /\ calls >= 1 /\ call.op \in {"randrange", "none"})
        => /\ twists = {k \in 1 .. calls : k % N = 1}
           /\ gen.index \in 1 .. N
           /\ gen.index - 1 = (calls - 1) % N

\* the second twist, on draw 625
C10_Witness ==
    /\ alg = "MersenneTwister"
    /\ call.op = "randrange"
    /\ calls = N + 1
    /\ twists = {1, N + 1}
    /\ gen.index = 1

(***************************************************************************)
(* Properties of MersenneTwister::new.                                     *)
(***************************************************************************)
\* (1812433253 * (prev XOR (prev >> 30)) + i) mod 2^32
SeedWord(prev, i) ==
    Trunc(Add(WrappingMul(CoefF, Xor(prev, Shr(prev, 30)), 32), FromNat(i), 32), 32)

\* C11: MersenneTwister::new(seed) succeeds, without Err and without abort, for every
\* 32-bit seed including 0, with word 0 = seed and word i =
\* (1812433253 * (word[i-1] XOR (word[i-1] >> 30)) + i) mod 2^32 for i in 1..624.
C11_NewSucceedsAndWraps ==
    (alg = "MersenneTwister" /\ call.op = "seed")
        => /\ pc = "idle"
           /\ ret.ok
           /\ gen.state[0] = call.seed
           /\ \A i \in 1 .. (N - 1) : gen.state[i] = SeedWord(gen.state[i - 1], i)

\* Without overflow checks new succeeds with the wrapped words, and with them it
\* succeeds whenever no `+ i` passes 2^32.
NewWrapsWithoutChecks ==
    (alg = "MersenneTwister" /\ call.op = "seed" /\ pc # "panicked")
        => /\ pc = "idle"
           /\ ret.ok
           /\ gen.state[0] = call.seed
           /\ \A i \in 1 .. (N - 1) : gen.state[i] = SeedWord(gen.state[i - 1], i)

(***************************************************************************)
(* Properties of XORShift128Plus.                                          *)
(***************************************************************************)
\* x = x0; x ^= x << 23 (cut to 64 bits); x ^= x >> 18; x ^= y ^ (y >> 5)
PlusX(x0, y) ==
    LET x1 == Xor(x0, Shl(x0, 23, 64))
        x2 == Xor(x1, Shr(x1, 18))
    IN  Xor(x2, Xor(y, Shr(y, 5)))

\* what a draw over range returns when its raw output is raw
RangedFrom(raw, range) ==
    Add(Mod(raw, Sub(RangeEnd(range, 128), RangeStart(range), 128), 128),
        RangeStart(range), 128)

C12_Step ==
    (alg = "XORShift128Plus" /\ pc = "idle" /\ call'.op = "randrange")
        => LET y == gen.state[1]
               x == PlusX(gen.state[0], y)
           IN  /\ gen'.state = Pair(gen.state[0], x)
               /\ ValidRange(call'.range, 128)
                     => /\ pc' = "returned"
                        /\ ret'.value = RangedFrom(Add(x, y, 65), call'.range)

\* C12: one draw of XORShift128Plus computes x from (x0, y) by x ^= x << 23,
\* x ^= x >> 18, x ^= y ^ (y >> 5), stores x into the second register and leaves the
\* first unchanged, and its raw output, before the range reduction, is the full sum
\* x + y (up to 2^65 - 2, not reduced modulo 2^64) as a 128-bit value.
C12_RawOutputIsFullSum == [][C12_Step]_vars

PlusWrappedStep ==
    (alg = "XORShift128Plus" /\ pc = "idle" /\ call'.op = "randrange")
        => LET y == gen.state[1]
               x == PlusX(gen.state[0], y)
           IN  /\ gen'.state = Pair(gen.state[0], x)
               /\ pc' = "panicked" => 64 \in Add(x, y, 65) \/ ~ValidRange(call'.range, 128)
               /\ (pc' = "returned" /\ ValidRange(call'.range, 128))
                     => ret'.value = RangedFrom(Trunc(Add(x, y, 65), 64), call'.range)

\* What the code does: the registers are updated as C12 says, a draw that returns
\* has the sum modulo 2^64 as its raw output, and a draw aborts only when the sum
\* passes 2^64 under overflow checks or the range is not valid.
PlusRawOutputIsWrappedSum == [][PlusWrappedStep]_vars

(***************************************************************************)
(* Properties of the XORShift register.                                    *)
(***************************************************************************)
\* a generator exists: the constructor has returned one
Built == pc \notin {"init", "failed"}

\* C13: the register of an XORShift32, XORShift64 or XORShift128 is non-zero in every
\* reachable state, whether the generator was made by new(seed) or by default() with
\* any clock reading (a reading of 0 and the fallback included), and after any number
\* of draws.
C13_RegisterNonZero ==
    (alg \in {"XORShift32", "XORShift64", "XORShift128"} /\ Built) => gen.state # {}

\* A register that is non-zero stays non-zero, and a zero register stays zero.
RegisterKeepsZeroness ==
    [][(alg \in {"XORShift32", "XORShift64", "XORShift128"} /\ Built)
          => ((gen'.state = {}) <=> (gen.state = {}))]_vars

====
